---- MODULE Spec2Model ----
(***************************************************************************)
(* Download job scheduler (backend/app/queue_manager.py) and the file      *)
(* ingestion pipeline it drives (backend/app/routers/downloads.py).        *)
(*                                                                         *)
(* Job objects live in `heap` (Python object identity = index in heap);    *)
(* the containers of DownloadQueueManager hold references (indices).       *)
(* A job id is the pair <<user_id, millisecond timestamp>>, exactly the    *)
(* two parts generate_job_id formats into a string.                        *)
(***************************************************************************)
EXTENDS Integers, Sequences, FiniteSets, TLC

\* ------------------------------------------------------------- bounds
\* jobs admitted in a run of Spec, CallSpec, LiveSpec, HistSpec, ScenarioSpec
MaxJobs == 3
CallJobs == 3
LiveJobs == 3
HistJobs == 2
ScenarioJobs == 5

\* Program constants
HistoryLimit == 10
DefaultMaxConcurrent == 3

\* owners, and the milliseconds the clock shows during a run
Users == {1, 2}
Times == {1, 2}
Ids == Users \X Times
\* max_concurrent_downloads is a setting; these are the values tried
Settings == 1..DefaultMaxConcurrent

VARIABLES
  now,              \* int(time.time() * 1000), the millisecond clock
  max_concurrent,   \* DownloadQueueManager.max_concurrent
  heap,             \* the DownloadJob objects, in order of creation
  queue,            \* DownloadQueueManager.queue (deque of references)
  processing,       \* DownloadQueueManager.processing {job_id: job}
  completed,        \* DownloadQueueManager.completed {user_id: [jobs]}
  failed,           \* DownloadQueueManager.failed {user_id: [jobs]}
  jobs,             \* DownloadQueueManager.jobs {job_id: job}
  total_completed,  \* DownloadQueueManager.total_completed
  total_failed,     \* DownloadQueueManager.total_failed
  tasks,            \* number of _process_queue tasks created and not yet run
  last,             \* the scheduler call that produced this state (CallSpec)
  tracks,           \* the committed rows of table tracks, in order of insertion
  storage_used,     \* users.storage_used_mb as committed, per owner
  storage_quota,    \* users.storage_quota_mb, per owner
  music,            \* content hashes of the files in uploads/music
  meta,             \* what MutagenFile does with a file of each content
  run,              \* the executions of process_job_task
  loop,             \* the execution the event loop is running between two awaits
  temp_dirs,        \* whether a directory exists at each path of uploads/temp_downloads
  executors,        \* the process_job_task tasks, in order of creation
  catalog           \* tables artists and albums, and the sessions writing them

schedVars == <<now, max_concurrent, heap, queue, processing, completed, failed,
               jobs, total_completed, total_failed, tasks>>

ingestVars == <<tracks, storage_used, storage_quota, music, meta, run, loop,
                temp_dirs>>

execVars == <<executors>>

vars == <<schedVars, last, ingestVars, execVars, catalog>>

\* ------------------------------------------------------------ helpers
Range(s) == {s[i] : i \in DOMAIN s}

\* dict[key] = value
DictSet(d, k, v) == [x \in (DOMAIN d) \cup {k} |-> IF x = k THEN v ELSE d[x]]

\* a pop that leaves the key in place
DictKeep(d, k) == d

\* dict.pop(key, None)
DictPop(d, k) == [x \in (DOMAIN d) \ {k} |-> d[x]]

EmptyDict == [x \in {} |-> 0]

\* DownloadJob(...) as add_job constructs it; position 0 is None,
\* completed_at 0 is None (else the ordinal of the termination).
DownloadJob(job_id, user_id) ==
  [id |-> job_id, user_id |-> user_id, status |-> "QUEUED", position |-> 0,
   started_at |-> FALSE, completed_at |-> 0, error |-> FALSE, result |-> FALSE]

generate_job_id(user_id) == <<user_id, now>>

\* positions left as they were
KeepPositions(q, h) == h

\* _update_positions: position i+1 for the job at queue index i
RECURSIVE UpdatePositionsFrom(_, _, _)
UpdatePositionsFrom(q, h, i) ==
  IF i > Len(q) THEN h
  ELSE UpdatePositionsFrom(q, [h EXCEPT ![q[i]].position = i], i + 1)

_update_positions(q, h) == UpdatePositionsFrom(q, h, 1)

\* a loop condition that keeps one slot back
SlotShort(p, q) == Cardinality(DOMAIN p) < max_concurrent - 1 /\ Len(q) > 0

\* the loop condition of _process_queue
HasFreeSlot(p, q) == Cardinality(DOMAIN p) < max_concurrent /\ Len(q) > 0

\* queue.pop(), what a LIFO scheduler would do: the newest job is taken
PopNewest(q) == [job |-> q[Len(q)], rest |-> SubSeq(q, 1, Len(q) - 1)]

\* queue.popleft(): the job taken and the queue left
PopJob(q) == [job |-> Head(q), rest |-> Tail(q)]

\* a dispatch with `if` for `while`: at most one job is taken
ProcessOne(q, p, h) ==
  IF HasFreeSlot(p, q)
  THEN LET n == Head(q)
           h1 == [h EXCEPT ![n].status = "PROCESSING",
                           ![n].position = 0,
                           ![n].started_at = TRUE]
       IN [queue |-> Tail(q), processing |-> DictSet(p, h[n].id, n),
           heap |-> _update_positions(Tail(q), h1)]
  ELSE [queue |-> q, processing |-> p, heap |-> h]

\* _process_queue: the while loop, on (queue, processing, heap)
RECURSIVE ProcessLoop(_, _, _)
ProcessLoop(q, p, h) ==
  IF HasFreeSlot(p, q)
  THEN LET popped == PopJob(q)
           n == popped.job
           h1 == [h EXCEPT ![n].status = "PROCESSING",
                           ![n].position = 0,
                           ![n].started_at = TRUE]
           p1 == DictSet(p, h[n].id, n)
       IN ProcessLoop(popped.rest, p1, _update_positions(popped.rest, h1))
  ELSE [queue |-> q, processing |-> p, heap |-> h]

\* a history that drops the job just appended instead of the oldest
DropNewest(list) ==
  IF Len(list) > HistoryLimit
  THEN [list |-> SubSeq(list, 1, Len(list) - 1), evicted |-> <<list[Len(list)]>>]
  ELSE [list |-> list, evicted |-> <<>>]

\* history.append(job), then pop(0) when longer than 10:
\* the list kept and the jobs evicted
KeepLast(list) ==
  IF Len(list) > HistoryLimit
  THEN [list |-> Tail(list), evicted |-> <<Head(list)>>]
  ELSE [list |-> list, evicted |-> <<>>]

\* ------------------------------------------------------------ actions

\* time passes
Tick ==
  /\ now + 1 \in Times
  /\ now' = now + 1
  /\ UNCHANGED <<max_concurrent, heap, queue, processing, completed, failed,
                 jobs, total_completed, total_failed, tasks>>

\* add_job: the locked section, then asyncio.create_task(_process_queue());
\* `limit` bounds the jobs admitted in a run
add_job(user_id, limit) ==
  /\ Len(heap) < limit
  /\ LET job_id == generate_job_id(user_id)
         n == Len(heap) + 1
         h1 == Append(heap, DownloadJob(job_id, user_id))
         q1 == Append(queue, n)
     IN /\ heap' = _update_positions(q1, h1)
        /\ queue' = q1
        /\ jobs' = DictSet(jobs, job_id, n)
        /\ tasks' = tasks + 1
  /\ UNCHANGED <<now, max_concurrent, processing, completed, failed,
                 total_completed, total_failed>>

\* a task created by add_job runs _process_queue
ProcessQueueTask ==
  /\ tasks > 0
  /\ LET r == ProcessLoop(queue, processing, heap)
     IN /\ queue' = r.queue
        /\ processing' = r.processing
        /\ heap' = r.heap
  /\ tasks' = tasks - 1
  /\ UNCHANGED <<now, max_concurrent, completed, failed, jobs,
                 total_completed, total_failed>>

\* a mark_job_* that returns without calling _process_queue
NoDispatchAfterMark(found) == 0

\* how often mark_job_completed / mark_job_failed call _process_queue after
\* their locked section: once, unless the early return was taken
DispatchAfterMark(found) == IF found THEN 1 ELSE 0

\* the state after the call of _process_queue that ends mark_job_*
AfterMark(found, q, p, h) ==
  IF DispatchAfterMark(found) > 0 THEN ProcessLoop(q, p, h)
  ELSE [queue |-> q, processing |-> p, heap |-> h]

\* mark_job_completed(job_id, result)
mark_job_completed(job_id) ==
  IF job_id \notin DOMAIN processing
  THEN UNCHANGED schedVars
  ELSE LET n == processing[job_id]
           p1 == DictPop(processing, job_id)
           h1 == [heap EXCEPT ![n].status = "COMPLETED",
                              ![n].completed_at = total_completed + total_failed + 1,
                              ![n].result = TRUE]
           u == heap[n].user_id
           kept == KeepLast(Append(completed[u], n))
           j1 == IF kept.evicted = <<>> THEN jobs
                 ELSE DictPop(jobs, heap[kept.evicted[1]].id)
           r == AfterMark(TRUE, queue, p1, h1)
       IN /\ completed' = [completed EXCEPT ![u] = kept.list]
          /\ jobs' = j1
          /\ total_completed' = total_completed + 1
          /\ queue' = r.queue
          /\ processing' = r.processing
          /\ heap' = r.heap
          /\ UNCHANGED <<now, max_concurrent, failed, total_failed, tasks>>

\* mark_job_failed(job_id, error)
mark_job_failed(job_id) ==
  IF job_id \notin DOMAIN processing
  THEN UNCHANGED schedVars
  ELSE LET n == processing[job_id]
           p1 == DictPop(processing, job_id)
           h1 == [heap EXCEPT ![n].status = "FAILED",
                              ![n].completed_at = total_completed + total_failed + 1,
                              ![n].error = TRUE]
           u == heap[n].user_id
           kept == KeepLast(Append(failed[u], n))
           j1 == IF kept.evicted = <<>> THEN jobs
                 ELSE DictPop(jobs, heap[kept.evicted[1]].id)
           r == AfterMark(TRUE, queue, p1, h1)
       IN /\ failed' = [failed EXCEPT ![u] = kept.list]
          /\ jobs' = j1
          /\ total_failed' = total_failed + 1
          /\ queue' = r.queue
          /\ processing' = r.processing
          /\ heap' = r.heap
          /\ UNCHANGED <<now, max_concurrent, completed, total_completed, tasks>>

\* get_job(job_id): 0 is None
get_job(job_id) == IF job_id \in DOMAIN jobs THEN jobs[job_id] ELSE 0

\* get_user_jobs(user_id), as a set (the sort by created_at is not modelled)
get_user_jobs(user_id) ==
  {n \in Range(queue) : heap[n].user_id = user_id}
    \cup {processing[k] : k \in {x \in DOMAIN processing :
                                   heap[processing[x]].user_id = user_id}}
    \cup Range(completed[user_id]) \cup Range(failed[user_id])

\* ---------------------------------------------------------- ingestion
\* files a job's subprocess may deliver
MaxFiles == 2

\* the executions of process_job_task, numbered in the order they start
Runs == {1, 2}
\* file contents, named by their sha256
Hashes == {1, 2}
\* storage_quota_mb values tried
Quotas == {2, 3}
Kinds == {"spotify", "youtube"}
\* MutagenFile(path, easy=True): a FileType, None, or an exception
MetaOutcomes == {"ok", "none", "raises"}
\* where an exception strikes while a new file is persisted
Faults == {"none", "rename", "link"}

FileLists == UNION {[1..n -> Hashes] : n \in 0..MaxFiles}

\* what a subprocess may leave: a failure, or success with some files
Results == {[returncode |-> 1, files |-> <<>>]} \cup [returncode : {0}, files : FileLists]

\* the contents whose metadata every run of MutagenFile reads
Readable == {1}

\* get_file_size_mb: the size is a function of the content
get_file_size_mb(c) == c

\* the source URLs submitted
Urls == {1, 2}

\* temp_dir: uploads/temp_downloads/user_{user.id}_{hash(url) % 100000}
TempDir(u, url) == <<u, url>>

Paths == Users \X Urls

\* a job's execution before process_job_task has started it
NewRun ==
  [pc |-> "new", owner |-> 0, kind |-> "none", url |-> 0, is_playlist |-> FALSE,
   dir |-> FALSE, returncode |-> 0, files |-> <<>>, error |-> "",
   seen |-> 0, next |-> 0, used |-> 0, expired |-> FALSE,
   position |-> 1, playlist |-> <<>>, pending |-> <<>>,
   processed |-> <<>>, skipped |-> <<>>, log |-> <<>>]

\* no job is being executed and the library is empty
NoIngestion ==
  /\ tracks = <<>>
  /\ storage_used = [u \in Users |-> 0]
  /\ storage_quota = [u \in Users |-> 3]
  /\ music = {}
  /\ meta = [c \in Hashes |-> "ok"]
  /\ run = [j \in Runs |-> NewRun]
  /\ loop = 0
  /\ temp_dirs = [p \in Paths |-> FALSE]

\* executions that would yield the event loop between the steps of a file
LoopYielded(j) == j \in Runs

\* The file loop of _execute_*_download_logic contains no await: from the
\* return of asyncio.to_thread to mark_job_completed one execution has the
\* event loop to itself.
LoopFree(j) == loop \in {0, j}

\* user.storage_used_mb as the execution's session sees it: the value it
\* loaded, reloaded after a commit or rollback expired it
UserUsed(r) == IF r.expired THEN storage_used[r.owner] ELSE r.used

\* db.query(Track).filter(Track.song_hash == file_hash).first(): 0 is None
existing_track(c) ==
  IF \E i \in DOMAIN tracks : tracks[i].song_hash = c
  THEN CHOOSE i \in DOMAIN tracks : tracks[i].song_hash = c
  ELSE 0

\* the unique constraint on tracks.song_hash, as db.flush() enforces it
IntegrityError(c) == \E i \in DOMAIN tracks : tracks[i].song_hash = c

\* Track(...), its id assigned by the insert
Track(c, user_id) ==
  [id |-> Len(tracks) + 1, song_hash |-> c, file_size_mb |-> get_file_size_mb(c),
   uploaded_by_id |-> user_id]

\* `continue` (or the end of the loop body): on to the next file, one more
\* line in the log
NextFile(r, line) ==
  [r EXCEPT !.pc = "check", !.next = r.next + 1, !.log = Append(r.log, line)]

\* db.rollback() in the per-file except: pending rows are dropped and the
\* session's objects expire
Rollback(r) == [r EXCEPT !.expired = TRUE, !.pending = <<>>]

\* db.commit(): the pending PlaylistSong rows are written and the session's
\* objects expire
Commit(r) ==
  [r EXCEPT !.expired = TRUE, !.playlist = r.playlist \o r.pending,
            !.pending = <<>>]

\* db.add(PlaylistSong(...)) when the job created a playlist
AddToPlaylist(r, track_id) ==
  IF r.is_playlist
  THEN [r EXCEPT !.pending = Append(r.pending,
          [track_id |-> track_id, position |-> r.position])]
  ELSE r

\* temp_dir.mkdir(parents=True, exist_ok=True)
mkdir(dirs, path) == [dirs EXCEPT ![path] = TRUE]

\* shutil.rmtree(temp_dir, ignore_errors=True)
rmtree(dirs, path) == [dirs EXCEPT ![path] = FALSE]

\* execute_spotify_download / execute_youtube_download up to the await of
\* asyncio.to_thread: load the user, check the quota, make the temp
\* directory, start the subprocess
StartJob(j, u, k, url, pl) ==
  /\ run[j].pc = "new"
  /\ \A i \in Runs : i < j => run[i].pc # "new"
  /\ LoopFree(j)
  /\ LET r == [run[j] EXCEPT !.owner = u, !.kind = k, !.url = url,
                             !.is_playlist = pl, !.used = storage_used[u]]
         dirs == mkdir(temp_dirs, TempDir(u, url))
     IN IF storage_used[u] >= storage_quota[u]
        THEN /\ run' = [run EXCEPT ![j] = [r EXCEPT !.pc = "failed", !.error = "quota"]]
             /\ UNCHANGED temp_dirs
        ELSE /\ run' = [run EXCEPT ![j] =
                  [r EXCEPT !.pc = "acquiring", !.dir = TRUE]]
             /\ temp_dirs' = dirs
  /\ UNCHANGED <<tracks, storage_used, storage_quota, music, meta, loop>>

\* the subprocess ends in its thread: a return code (1 also stands for
\* TimeoutExpired), and the *.mp3 files now in the temp directory, which
\* the downloader makes again if it is gone
AcquireDone(j, result) ==
  /\ run[j].pc = "acquiring"
  /\ LET path == TempDir(run[j].owner, run[j].url)
         dirs == IF result.files = <<>> THEN temp_dirs ELSE mkdir(temp_dirs, path)
     IN /\ temp_dirs' = dirs
        /\ run' = [run EXCEPT ![j] =
             [@ EXCEPT !.pc = "acquired", !.returncode = result.returncode,
                       !.files = result.files, !.seen = Len(tracks)]]
  /\ UNCHANGED <<tracks, storage_used, storage_quota, music, meta, loop>>

\* list(temp_dir.glob("*.mp3")): the files delivered, if their directory
\* is still there
glob(j) ==
  IF temp_dirs[TempDir(run[j].owner, run[j].url)] THEN run[j].files ELSE <<>>

\* the coroutine resumes after the await: fail (and clean up) on a non-zero
\* return code or on no file, else create the playlist and enter the file
\* loop
ResumeJob(j) ==
  /\ run[j].pc = "acquired"
  /\ LoopFree(j)
  /\ LET r == run[j]
         path == TempDir(r.owner, r.url)
     IN IF r.returncode # 0 \/ glob(j) = <<>>
        THEN /\ run' = [run EXCEPT ![j] = [r EXCEPT !.pc = "failed",
                  !.files = glob(j),
                  !.error = IF r.returncode # 0 THEN "acquisition" ELSE "nofiles"]]
             /\ temp_dirs' = rmtree(temp_dirs, path)
             /\ UNCHANGED loop
        ELSE /\ run' = [run EXCEPT ![j] =
                  [(IF r.is_playlist THEN Commit(r) ELSE r) EXCEPT
                     !.pc = "check", !.next = 1]]
             /\ loop' = j
             /\ UNCHANGED temp_dirs
  /\ UNCHANGED <<tracks, storage_used, storage_quota, music, meta>>

\* one file, from MutagenFile to the quota check
CheckFile(j) ==
  /\ run[j].pc = "check"
  /\ LoopFree(j)
  /\ run[j].next <= Len(run[j].files)
  /\ LET r == run[j]
         c == r.files[r.next]
         audio == meta[c]
         t == existing_track(c)
         used == UserUsed(r)
         loaded == [r EXCEPT !.used = used, !.expired = FALSE]
     IN run' = [run EXCEPT ![j] =
          IF audio = "raises"
          THEN NextFile(Rollback(r), "error")
          ELSE IF audio = "none" /\ r.kind = "spotify"
          THEN NextFile(r, "unreadable")
          ELSE IF t # 0
          THEN NextFile([AddToPlaylist(r, tracks[t].id) EXCEPT
                 !.skipped = Append(r.skipped,
                   [file |-> r.next, reason |-> "Already in library",
                    id |-> tracks[t].id]),
                 !.position = r.position + 1], "duplicate")
          ELSE IF used + get_file_size_mb(c) > storage_quota[r.owner]
          THEN NextFile(loaded, "quota")
          ELSE [loaded EXCEPT !.pc = "persist"]]
  /\ UNCHANGED <<tracks, storage_used, storage_quota, music, meta, loop, temp_dirs>>

\* one file, from the rename into uploads/music to db.commit(), and the
\* per-file except; `lyrics` says whether save_lyrics_for_track found
\* lyrics and committed (the Track with them) before the ledger is charged
PersistFile(j, fault, lyrics) ==
  /\ run[j].pc = "persist"
  /\ LoopFree(j)
  /\ LET r == run[j]
         c == r.files[r.next]
         track == Track(c, r.owner)
         used == (IF lyrics THEN storage_used[r.owner] ELSE UserUsed(r))
                   + track.file_size_mb
     IN IF fault = "rename"
        THEN /\ run' = [run EXCEPT ![j] = NextFile(Rollback(r), "error")]
             /\ UNCHANGED <<tracks, storage_used, music>>
        ELSE IF IntegrityError(c)
        THEN /\ run' = [run EXCEPT ![j] = NextFile(Rollback(r), "conflict")]
             /\ music' = music \cup {c}
             /\ UNCHANGED <<tracks, storage_used>>
        ELSE IF fault = "link" /\ lyrics
        THEN /\ run' = [run EXCEPT ![j] = NextFile(Rollback(Commit(r)), "error")]
             /\ tracks' = Append(tracks, track)
             /\ music' = music \cup {c}
             /\ UNCHANGED storage_used
        ELSE IF fault = "link"
        THEN /\ run' = [run EXCEPT ![j] = NextFile(Rollback(r), "error")]
             /\ music' = music \cup {c}
             /\ UNCHANGED <<tracks, storage_used>>
        ELSE /\ tracks' = Append(tracks, track)
             /\ storage_used' = [storage_used EXCEPT ![r.owner] = used]
             /\ music' = music \cup {c}
             /\ run' = [run EXCEPT ![j] =
                  NextFile([Commit(AddToPlaylist(r, track.id)) EXCEPT
                              !.used = used,
                              !.position = r.position + 1,
                              !.processed = Append(r.processed,
                                 [file |-> r.next, id |-> track.id])],
                           "processed")]
  /\ UNCHANGED <<storage_quota, meta, loop, temp_dirs>>

\* after the last file: the final commit, the cleanup, the result is
\* returned and mark_job_completed called
FinishJob(j) ==
  /\ run[j].pc = "check"
  /\ LoopFree(j)
  /\ run[j].next > Len(run[j].files)
  /\ run' = [run EXCEPT ![j] = [Commit(run[j]) EXCEPT !.pc = "completed"]]
  /\ temp_dirs' = rmtree(temp_dirs, TempDir(run[j].owner, run[j].url))
  /\ loop' = 0
  /\ UNCHANGED <<tracks, storage_used, storage_quota, music, meta>>

\* ------------------------------------------------------------ the catalog
\* utils/library.py resolves the artist and album names of a track's
\* metadata to rows of the tables artists and albums.  A name is a string,
\* here a sequence of characters; a row is identified by its name.

\* a value that is not given (None)
None == <<>>

\* the names in the metadata of the files
Names == {<<"a", "b">>, <<" ", "A", "b">>, <<"a", "_">>}

\* the requests that open a session on the database
Sessions == {1, 2}

Tables == {"artists", "albums", "album_artists"}

\* str.strip(): without the surrounding whitespace
RECURSIVE strip(_)
strip(s) ==
  IF s = <<>> THEN s
  ELSE IF Head(s) = " " THEN strip(Tail(s))
  ELSE IF s[Len(s)] = " " THEN strip(SubSeq(s, 1, Len(s) - 1))
  ELSE s

\* lower() of the database, which folds the ASCII letters
LowerChar(c) == IF c = "A" THEN "a" ELSE IF c = "B" THEN "b" ELSE c

\* lower(text) = lower(pattern), character by character
RECURSIVE EqualsIgnoringCase(_, _)
EqualsIgnoringCase(text, pattern) ==
  IF pattern = <<>> \/ text = <<>> THEN pattern = text
  ELSE /\ LowerChar(Head(pattern)) = LowerChar(Head(text))
       /\ EqualsIgnoringCase(Tail(text), Tail(pattern))

\* column.ilike(pattern): lower(text) LIKE lower(pattern), where "%" in the
\* pattern stands for any run of characters and "_" for any one character
RECURSIVE ilike(_, _)
ilike(text, pattern) ==
  IF pattern = <<>> THEN text = <<>>
  ELSE IF Head(pattern) = "%"
    THEN \/ ilike(text, Tail(pattern))
         \/ text # <<>> /\ ilike(Tail(text), pattern)
  ELSE IF text = <<>> THEN FALSE
  ELSE IF Head(pattern) = "_" THEN ilike(Tail(text), Tail(pattern))
  ELSE /\ LowerChar(Head(pattern)) = LowerChar(Head(text))
       /\ ilike(Tail(text), Tail(pattern))

\* the result of the last call of a session
Resolved(fn, s, requested, returned, created, raised) ==
  [fn |-> fn, session |-> s, requested |-> requested, returned |-> returned,
   created |-> created, raised |-> raised]

\* empty tables, no session has written, nothing was called
NoCatalog ==
  [rows |-> [t \in Tables |-> {}],
   pending |-> [s \in Sessions |-> [t \in Tables |-> {}]],
   call |-> Resolved("none", 0, None, {}, FALSE, FALSE)]

\* the rows session s reads: the committed ones and those it flushed
Visible(s, t) == catalog.rows[t] \cup catalog.pending[s][t]

\* query(...).filter(name.ilike(requested)): first() takes one of these, in
\* the order of the database
Matching(s, t, requested) == {r \in Visible(s, t) : ilike(r, requested)}

\* the database has one writer: another session holds unflushed rows
Locked_db(s) ==
  \E o \in Sessions \ {s} : \E t \in Tables : catalog.pending[o][t] # {}

\* get_or_create_artist inside a session that may write: the artists it may
\* return, and whether the artist was created
Artists(s, artist_name) ==
  IF Matching(s, "artists", strip(artist_name)) # {}
  THEN {[artist |-> a, created |-> FALSE] :
           a \in Matching(s, "artists", strip(artist_name))}
  ELSE {[artist |-> strip(artist_name), created |-> TRUE]}

get_or_create_artist(s, artist_name) ==
  IF artist_name = None
  THEN catalog' = [catalog EXCEPT
         !.call = Resolved("get_or_create_artist", s, artist_name, {}, FALSE, FALSE)]
  ELSE \E a \in Artists(s, artist_name) :
         IF a.created /\ Locked_db(s)
         THEN catalog' = [catalog EXCEPT
                !.call = Resolved("get_or_create_artist", s, artist_name, {}, FALSE, TRUE)]
         ELSE catalog' = [catalog EXCEPT
                !.pending[s]["artists"] = IF a.created THEN @ \cup {a.artist} ELSE @,
                !.call = Resolved("get_or_create_artist", s, artist_name,
                                  {a.artist}, a.created, FALSE)]

get_or_create_album(s, album_title, artist_name) ==
  IF album_title = None
  THEN catalog' = [catalog EXCEPT
         !.call = Resolved("get_or_create_album", s, album_title, {}, FALSE, FALSE)]
  ELSE IF Matching(s, "albums", strip(album_title)) # {}
  THEN \E album \in Matching(s, "albums", strip(album_title)) :
         catalog' = [catalog EXCEPT
           !.call = Resolved("get_or_create_album", s, album_title, {album}, FALSE, FALSE)]
  ELSE IF Locked_db(s)
  THEN catalog' = [catalog EXCEPT
         !.call = Resolved("get_or_create_album", s, album_title, {}, FALSE, TRUE)]
  ELSE IF artist_name = None
  THEN catalog' = [catalog EXCEPT
         !.pending[s]["albums"] = @ \cup {strip(album_title)},
         !.call = Resolved("get_or_create_album", s, album_title,
                           {strip(album_title)}, TRUE, FALSE)]
  ELSE \E a \in Artists(s, artist_name) :
         catalog' = [catalog EXCEPT
           !.pending[s]["albums"] = @ \cup {strip(album_title)},
           !.pending[s]["artists"] = IF a.created THEN @ \cup {a.artist} ELSE @,
           !.pending[s]["album_artists"] = @ \cup {<<strip(album_title), a.artist>>},
           !.call = Resolved("get_or_create_album", s, album_title,
                             {strip(album_title)}, TRUE, FALSE)]

\* db.commit() of the caller
db_commit(s) ==
  /\ \E t \in Tables : catalog.pending[s][t] # {}
  /\ catalog' = [catalog EXCEPT
       !.rows = [t \in Tables |-> @[t] \cup catalog.pending[s][t]],
       !.pending[s] = [t \in Tables |-> {}]]

\* db.rollback() of the caller, after an error
db_rollback(s) ==
  /\ \E t \in Tables : catalog.pending[s][t] # {}
  /\ catalog' = [catalog EXCEPT !.pending[s] = [t \in Tables |-> {}]]

\* the scheduler as constructed, with the default setting
SchedulerIdle ==
  /\ now = 1
  /\ max_concurrent = DefaultMaxConcurrent
  /\ heap = <<>>
  /\ queue = <<>>
  /\ processing = EmptyDict
  /\ completed = [u \in Users |-> <<>>]
  /\ failed = [u \in Users |-> <<>>]
  /\ jobs = EmptyDict
  /\ total_completed = 0
  /\ total_failed = 0
  /\ tasks = 0
  /\ last = [op |-> "__init__", found |-> TRUE, dispatches |-> 0, created |-> 0]
  /\ executors = <<>>
  /\ catalog = NoCatalog

\* executions of jobs on a fresh library
IngestInit ==
  /\ SchedulerIdle
  /\ tracks = <<>>
  /\ storage_used = [u \in Users |-> 0]
  /\ \E q \in Quotas : storage_quota = [u \in Users |-> q]
  /\ music = {}
  /\ meta \in {m \in [Hashes -> MetaOutcomes] : \A c \in Readable : m[c] = "ok"}
  /\ run = [j \in Runs |-> NewRun]
  /\ loop = 0
  /\ temp_dirs = [p \in Paths |-> FALSE]

\* Owners and URLs are interchangeable on a fresh library: the first
\* execution is of owner 1 and URL 1.
FirstOr(j, S) == IF j = 1 THEN {1} ELSE S

IngestNext ==
  \/ \E j \in Runs, k \in Kinds :
       \E u \in FirstOr(j, Users), url \in FirstOr(j, Urls) :
         StartJob(j, u, k, url, FALSE) /\ UNCHANGED <<schedVars, last, execVars, catalog>>
  \/ \E j \in Runs, result \in Results :
       AcquireDone(j, result) /\ UNCHANGED <<schedVars, last, execVars, catalog>>
  \/ \E j \in Runs : ResumeJob(j) /\ UNCHANGED <<schedVars, last, execVars, catalog>>
  \/ \E j \in Runs : CheckFile(j) /\ UNCHANGED <<schedVars, last, execVars, catalog>>
  \/ \E j \in Runs, fault \in Faults :
       PersistFile(j, fault, FALSE) /\ UNCHANGED <<schedVars, last, execVars, catalog>>
  \/ \E j \in Runs : FinishJob(j) /\ UNCHANGED <<schedVars, last, execVars, catalog>>

IngestSpec == IngestInit /\ [][IngestNext]_vars

\* ---- a playlist import over an existing library ----

\* the contents of the three files a playlist acquisition returns
PlaylistHashes == {1, 2, 3}

\* the files in the order of glob: the 2nd has the content of the Track
\* that is already in the library
PlaylistFiles == <<1, 2, 3>>

\* the Track another owner uploaded earlier, with the 2nd file's content
PreExisting == [id |-> 1, song_hash |-> 2, file_size_mb |-> get_file_size_mb(2),
                uploaded_by_id |-> 2]

\* quotas under which the two new files fit, or the last does not
PlaylistQuotas == {3, 4}

PlaylistInit ==
  /\ SchedulerIdle
  /\ tracks = <<PreExisting>>
  /\ storage_used = [u \in Users |-> IF u = PreExisting.uploaded_by_id
                                     THEN PreExisting.file_size_mb ELSE 0]
  /\ \E q \in PlaylistQuotas : storage_quota = [u \in Users |-> q]
  /\ music = {PreExisting.song_hash}
  /\ meta \in {m \in [PlaylistHashes -> MetaOutcomes] : m[PreExisting.song_hash] = "ok"}
  /\ run = [j \in Runs |-> NewRun]
  /\ loop = 0
  /\ temp_dirs = [p \in Paths |-> FALSE]

\* one playlist job of owner 1
PlaylistNext ==
  \/ \E k \in Kinds : StartJob(1, 1, k, 1, TRUE) /\ UNCHANGED <<schedVars, last, execVars, catalog>>
  \/ AcquireDone(1, [returncode |-> 0, files |-> PlaylistFiles])
       /\ UNCHANGED <<schedVars, last, execVars, catalog>>
  \/ ResumeJob(1) /\ UNCHANGED <<schedVars, last, execVars, catalog>>
  \/ CheckFile(1) /\ UNCHANGED <<schedVars, last, execVars, catalog>>
  \/ \E fault \in Faults :
       PersistFile(1, fault, FALSE) /\ UNCHANGED <<schedVars, last, execVars, catalog>>
  \/ FinishJob(1) /\ UNCHANGED <<schedVars, last, execVars, catalog>>

PlaylistSpec == PlaylistInit /\ [][PlaylistNext]_vars

\* ---- two jobs of one owner, lyrics found or not ----

\* what the two acquisitions may deliver
QuotaFiles == {<<1>>, <<2>>, <<1, 2>>}

\* a fresh library, every file readable, the same quota for all
QuotaInit ==
  /\ SchedulerIdle
  /\ tracks = <<>>
  /\ storage_used = [u \in Users |-> 0]
  /\ \E q \in Quotas : storage_quota = [u \in Users |-> q]
  /\ music = {}
  /\ meta = [c \in Hashes |-> "ok"]
  /\ run = [j \in Runs |-> NewRun]
  /\ loop = 0
  /\ temp_dirs = [p \in Paths |-> FALSE]

\* execution j is of owner 1, for URL j
QuotaNext ==
  \/ \E j \in Runs, k \in Kinds :
       StartJob(j, 1, k, j, FALSE) /\ UNCHANGED <<schedVars, last, execVars, catalog>>
  \/ \E j \in Runs, files \in QuotaFiles :
       AcquireDone(j, [returncode |-> 0, files |-> files])
         /\ UNCHANGED <<schedVars, last, execVars, catalog>>
  \/ \E j \in Runs : ResumeJob(j) /\ UNCHANGED <<schedVars, last, execVars, catalog>>
  \/ \E j \in Runs : CheckFile(j) /\ UNCHANGED <<schedVars, last, execVars, catalog>>
  \/ \E j \in Runs, fault \in Faults, lyrics \in BOOLEAN :
       PersistFile(j, fault, lyrics) /\ UNCHANGED <<schedVars, last, execVars, catalog>>
  \/ \E j \in Runs : FinishJob(j) /\ UNCHANGED <<schedVars, last, execVars, catalog>>

QuotaSpec == QuotaInit /\ [][QuotaNext]_vars

\* ------------------------------------------------------ specification
\* what a call did: its name, whether mark_job_* found the id in processing,
\* the runs of _process_queue inside the call, the tasks it created
Call(op, found, dispatches, created) ==
  [op |-> op, found |-> found, dispatches |-> dispatches, created |-> created]

MarkCall(op, job_id) ==
  Call(op, job_id \in DOMAIN processing,
       DispatchAfterMark(job_id \in DOMAIN processing), 0)

\* DownloadQueueManager.__init__
Init ==
  /\ now = 1
  /\ max_concurrent \in Settings
  /\ heap = <<>>
  /\ queue = <<>>
  /\ processing = EmptyDict
  /\ completed = [u \in Users |-> <<>>]
  /\ failed = [u \in Users |-> <<>>]
  /\ jobs = EmptyDict
  /\ total_completed = 0
  /\ total_failed = 0
  /\ tasks = 0
  /\ last = Call("__init__", TRUE, 0, 0)
  /\ NoIngestion
  /\ executors = <<>>
  /\ catalog = NoCatalog

Next ==
  \/ Tick /\ UNCHANGED <<last, ingestVars, execVars, catalog>>
  \/ \E u \in Users : add_job(u, MaxJobs) /\ UNCHANGED <<last, ingestVars, execVars, catalog>>
  \/ ProcessQueueTask /\ UNCHANGED <<last, ingestVars, execVars, catalog>>
  \/ \E id \in Ids : mark_job_completed(id) /\ UNCHANGED <<last, ingestVars, execVars, catalog>>
  \/ \E id \in Ids : mark_job_failed(id) /\ UNCHANGED <<last, ingestVars, execVars, catalog>>

Spec == Init /\ [][Next]_vars

\* the same scheduler, each step recording the call made
CallNext ==
  \/ Tick /\ UNCHANGED <<last, ingestVars, execVars, catalog>>
  \/ \E u \in Users : add_job(u, CallJobs) /\ last' = Call("add_job", TRUE, 0, 1) /\ UNCHANGED <<ingestVars, execVars, catalog>>
  \/ ProcessQueueTask /\ last' = Call("_process_queue", TRUE, 1, 0) /\ UNCHANGED <<ingestVars, execVars, catalog>>
  \/ \E id \in Ids : mark_job_completed(id) /\ last' = MarkCall("mark_job_completed", id) /\ UNCHANGED <<ingestVars, execVars, catalog>>
  \/ \E id \in Ids : mark_job_failed(id) /\ last' = MarkCall("mark_job_failed", id) /\ UNCHANGED <<ingestVars, execVars, catalog>>

CallSpec == Init /\ [][CallNext]_vars

\* --------------------------------------------------------- admission
\* jobs admitted in a run of AdmitSpec
AdmitJobs == 2

\* A URL is the sequence of the parts the parsers look for.
SampleUrls ==
  {<<>>,
   <<"example.com", "/track/", "id">>,
   <<"spotify.com", "/track/", "id">>,
   <<"spotify.com", "/artist/", "id">>,
   <<"youtube.com", "watch?v=", "id">>,
   <<"youtube.com", "watch?v=">>,
   <<"youtu.be/", "id">>}

SampleTypes == {"spotify", "youtube", "soundcloud"}

\* `part in url`
Contains(url, part) == part \in Range(url)

\* url.split(marker)[-1].split(...)[0]: what follows the marker
After(url, marker) ==
  LET i == CHOOSE k \in DOMAIN url : url[k] = marker
  IN IF i < Len(url) THEN url[i + 1] ELSE ""

\* parse_spotify_url returns (does not raise ValueError)
parse_spotify_url(url) ==
  /\ url # <<>>
  /\ Contains(url, "spotify.com")
  /\ \/ Contains(url, "/track/")
     \/ Contains(url, "/album/")
     \/ Contains(url, "/playlist/")

\* parse_youtube_url returns (does not raise ValueError)
parse_youtube_url(url) ==
  /\ url # <<>>
  /\ Contains(url, "youtube.com") \/ Contains(url, "youtu.be/")
  /\ \/ Contains(url, "watch?v=") /\ After(url, "watch?v=") # ""
     \/ ~Contains(url, "watch?v=") /\ Contains(url, "youtu.be/")
          /\ After(url, "youtu.be/") # ""

\* the request names a kind and a source URL the adapters accept
ValidRequest(download_type, url) ==
  \/ download_type = "spotify" /\ parse_spotify_url(url)
  \/ download_type = "youtube" /\ parse_youtube_url(url)

Request(download_type, url, accepted) ==
  [op |-> "add_to_queue", download_type |-> download_type, url |-> url,
   accepted |-> accepted]

\* POST /queue: HTTP 400 for an unknown download_type, else add_job
add_to_queue(user_id, url, download_type) ==
  IF download_type \notin {"spotify", "youtube"}
  THEN /\ UNCHANGED schedVars
       /\ last' = Request(download_type, url, FALSE)
  ELSE /\ add_job(user_id, AdmitJobs)
       /\ last' = Request(download_type, url, TRUE)

AdmitNext ==
  \/ Tick /\ last' = Call("tick", TRUE, 0, 0) /\ UNCHANGED <<ingestVars, execVars, catalog>>
  \/ \E u \in Users, url \in SampleUrls, t \in SampleTypes :
       add_to_queue(u, url, t) /\ UNCHANGED <<ingestVars, execVars, catalog>>
  \/ ProcessQueueTask /\ last' = Call("_process_queue", TRUE, 1, 0) /\ UNCHANGED <<ingestVars, execVars, catalog>>
  \/ \E id \in Ids : mark_job_completed(id) /\ last' = MarkCall("mark_job_completed", id) /\ UNCHANGED <<ingestVars, execVars, catalog>>
  \/ \E id \in Ids : mark_job_failed(id) /\ last' = MarkCall("mark_job_failed", id) /\ UNCHANGED <<ingestVars, execVars, catalog>>

AdmitSpec == Init /\ [][AdmitNext]_vars

\* ---------------------------------------------------------- liveness
\* a job in the processing set terminates: its executor calls
\* mark_job_completed or mark_job_failed for it
Terminate(job_id) ==
  /\ job_id \in DOMAIN processing
  /\ \/ mark_job_completed(job_id)
     \/ mark_job_failed(job_id)

LiveNext ==
  \/ Tick /\ UNCHANGED <<last, ingestVars, execVars, catalog>>
  \/ \E u \in Users : add_job(u, LiveJobs) /\ UNCHANGED <<last, ingestVars, execVars, catalog>>
  \/ ProcessQueueTask /\ UNCHANGED <<last, ingestVars, execVars, catalog>>
  \/ \E id \in Ids : Terminate(id) /\ UNCHANGED <<last, ingestVars, execVars, catalog>>

\* fewer slots than the default, so that jobs wait
LiveInit == Init /\ max_concurrent < DefaultMaxConcurrent

\* the event loop runs every task it was given; every job that enters
\* PROCESSING is eventually marked
LiveSpec ==
  /\ LiveInit
  /\ [][LiveNext]_vars
  /\ WF_vars(ProcessQueueTask /\ UNCHANGED <<last, ingestVars, execVars, catalog>>)
  /\ \A id \in Ids : WF_vars(Terminate(id) /\ UNCHANGED <<last, ingestVars, execVars, catalog>>)

\* ----------------------------------------------------------- history
\* A scheduler that has already run jobs: owner u has hist[u].done
\* completed and hist[u].bad failed jobs, each admitted in its own
\* millisecond (before the run's clock starts at 1), dispatched alone and
\* marked before the next was admitted.
DoneFill == {HistoryLimit - 1, HistoryLimit}

BadFill == {0, HistoryLimit}

RECURSIVE OldBefore(_, _)
OldBefore(hist, u) ==
  IF u \notin Users THEN 0
  ELSE hist[u].done + hist[u].bad + OldBefore(hist, u - 1)

OldTotal(hist) == OldBefore(hist, Cardinality(Users))

\* the k-th old job: its owner and whether it completed
OldOwner(hist, k) == CHOOSE u \in Users : OldBefore(hist, u - 1) < k /\ k <= OldBefore(hist, u)

OldCompleted(hist, k) == k <= OldBefore(hist, OldOwner(hist, k) - 1) + hist[OldOwner(hist, k)].done

OldJob(hist, k) ==
  [id |-> <<OldOwner(hist, k), k - OldTotal(hist)>>, user_id |-> OldOwner(hist, k),
   status |-> IF OldCompleted(hist, k) THEN "COMPLETED" ELSE "FAILED",
   position |-> 0, started_at |-> TRUE, completed_at |-> k,
   error |-> ~OldCompleted(hist, k), result |-> OldCompleted(hist, k)]

\* the ascending sequence of the numbers in lo..hi
Interval(lo, hi) == [i \in 1..(hi - lo + 1) |-> lo + i - 1]

HistInit ==
  \E hist \in [Users -> [done : DoneFill, bad : BadFill]] :
    /\ now = 1
    /\ max_concurrent \in Settings
    /\ heap = [k \in 1..OldTotal(hist) |-> OldJob(hist, k)]
    /\ queue = <<>>
    /\ processing = EmptyDict
    /\ completed = [u \in Users |->
         Interval(OldBefore(hist, u - 1) + 1, OldBefore(hist, u - 1) + hist[u].done)]
    /\ failed = [u \in Users |->
         Interval(OldBefore(hist, u - 1) + hist[u].done + 1, OldBefore(hist, u))]
    /\ jobs = [id \in {OldJob(hist, k).id : k \in 1..OldTotal(hist)} |->
                 CHOOSE k \in 1..OldTotal(hist) : OldJob(hist, k).id = id]
    /\ total_completed = Cardinality({k \in 1..OldTotal(hist) : OldCompleted(hist, k)})
    /\ total_failed = Cardinality({k \in 1..OldTotal(hist) : ~OldCompleted(hist, k)})
    /\ tasks = 0
    /\ last = Call("__init__", TRUE, 0, 0)
    /\ NoIngestion
    /\ executors = <<>>
    /\ catalog = NoCatalog

\* the jobs of the heap admitted before the run
OldJobs == {k \in DOMAIN heap : heap[k].id[2] <= 0}

HistNext ==
  \/ Tick /\ UNCHANGED <<last, ingestVars, execVars, catalog>>
  \/ \E u \in Users : add_job(u, Cardinality(OldJobs) + HistJobs) /\ UNCHANGED <<last, ingestVars, execVars, catalog>>
  \/ ProcessQueueTask /\ UNCHANGED <<last, ingestVars, execVars, catalog>>
  \/ \E id \in Ids : mark_job_completed(id) /\ UNCHANGED <<last, ingestVars, execVars, catalog>>
  \/ \E id \in Ids : mark_job_failed(id) /\ UNCHANGED <<last, ingestVars, execVars, catalog>>

HistSpec == HistInit /\ [][HistNext]_vars

\* ---------------------------------------------------------- scenario
\* one owner submits to an empty scheduler with max_concurrent = 2
ScenarioInit == Init /\ max_concurrent = 2

ScenarioNext ==
  \/ Tick /\ UNCHANGED <<last, ingestVars, execVars, catalog>>
  \/ add_job(1, ScenarioJobs) /\ UNCHANGED <<last, ingestVars, execVars, catalog>>
  \/ ProcessQueueTask /\ UNCHANGED <<last, ingestVars, execVars, catalog>>
  \/ \E id \in Ids : mark_job_completed(id) /\ UNCHANGED <<last, ingestVars, execVars, catalog>>
  \/ \E id \in Ids : mark_job_failed(id) /\ UNCHANGED <<last, ingestVars, execVars, catalog>>

ScenarioSpec == ScenarioInit /\ [][ScenarioNext]_vars

\* ------------------------------------------------------- executors
\* jobs admitted in a run of ExecSpec
ExecJobs == 2

\* asyncio.create_task(process_job_task(job.id)): the task holds the id,
\* polls in wait_until_processing, and has no job yet (0)
Executor(job_id) ==
  [job_id |-> job_id, pc |-> "waiting", elapsed |-> FALSE, job |-> 0]

\* an executor that would keep process_lock while its download runs
LockedWhileAcquiring(e) == executors[e].pc = "acquiring"

\* whether executor e holds process_lock between two of its steps: never,
\* every `async with self.process_lock` block is left before the next await
Locked(e) == FALSE

\* process_lock can be taken by a caller other than executor e (0: anyone)
LockAvailable(e) == \A x \in DOMAIN executors : x # e => ~Locked(x)

\* add_to_queue for a valid request: add_job, then the executor task
Submit(user_id) ==
  /\ LockAvailable(0)
  /\ add_job(user_id, ExecJobs)
  /\ executors' = Append(executors, Executor(generate_job_id(user_id)))

\* a _process_queue task runs
Dispatch ==
  /\ LockAvailable(0)
  /\ ProcessQueueTask
  /\ UNCHANGED executors

\* 3600 s have passed since wait_until_processing took start_time (the
\* clock is read only by a poll that finds the job QUEUED)
TimeOut(e) ==
  /\ executors[e].pc = "waiting"
  /\ ~executors[e].elapsed
  /\ get_job(executors[e].job_id) # 0
  /\ heap[get_job(executors[e].job_id)].status = "QUEUED"
  /\ executors' = [executors EXCEPT ![e].elapsed = TRUE]
  /\ UNCHANGED schedVars

\* a wait that takes every registered job for ready
ReadyWhenKnown(job_id, elapsed) ==
  IF get_job(job_id) = 0 THEN "False" ELSE "True"

\* one iteration of the loop of wait_until_processing: "True", "False", or
\* "sleep" for another round
wait_until_processing(job_id, elapsed) ==
  LET job == get_job(job_id)
  IN IF job = 0 THEN "False"
     ELSE IF heap[job].status = "PROCESSING" THEN "True"
     ELSE IF heap[job].status \in {"COMPLETED", "FAILED"} THEN "False"
     ELSE IF elapsed THEN "False"
     ELSE "sleep"

\* process_job_task wakes from asyncio.sleep(0.5) and polls: it returns on
\* "False", and on "True" looks its job up and enters execute_*_download
Poll(e) ==
  /\ executors[e].pc = "waiting"
  /\ LET is_ready == wait_until_processing(executors[e].job_id, executors[e].elapsed)
     IN executors' = [executors EXCEPT ![e] =
          IF is_ready = "True"
          THEN [@ EXCEPT !.pc = "acquiring", !.job = get_job(executors[e].job_id)]
          ELSE IF is_ready = "False" THEN [@ EXCEPT !.pc = "gave_up"]
          ELSE @]
  /\ UNCHANGED schedVars

\* execute_*_download ends: mark_job_completed or mark_job_failed with the
\* task's id, and process_job_task returns
Finish(e, ok) ==
  /\ executors[e].pc = "acquiring"
  /\ LockAvailable(e)
  /\ IF ok
     THEN mark_job_completed(executors[e].job_id)
     ELSE mark_job_failed(executors[e].job_id)
  /\ executors' = [executors EXCEPT ![e].pc = "returned"]

\* the scheduler with fewer slots than jobs
ExecInit == Init /\ max_concurrent < DefaultMaxConcurrent

ExecNext ==
  \/ Tick /\ UNCHANGED <<last, ingestVars, execVars, catalog>>
  \/ \E u \in Users : Submit(u) /\ UNCHANGED <<last, ingestVars, catalog>>
  \/ Dispatch /\ UNCHANGED <<last, ingestVars, catalog>>
  \/ \E e \in DOMAIN executors : TimeOut(e) /\ UNCHANGED <<last, ingestVars, catalog>>
  \/ \E e \in DOMAIN executors : Poll(e) /\ UNCHANGED <<last, ingestVars, catalog>>
  \/ \E e \in DOMAIN executors, ok \in BOOLEAN : Finish(e, ok) /\ UNCHANGED <<last, ingestVars, catalog>>

ExecSpec == ExecInit /\ [][ExecNext]_vars

\* the sleep of an executor task ends
PollTask(e) == e \in DOMAIN executors /\ Poll(e) /\ UNCHANGED <<last, ingestVars, catalog>>

\* the clock of the event loop passes the deadline of a wait
TimeOutTask(e) ==
  e \in DOMAIN executors /\ TimeOut(e) /\ UNCHANGED <<last, ingestVars, catalog>>

\* asyncio resumes every sleeping task and time advances: each executor
\* keeps polling, and a wait on a queued job reaches its deadline
ExecLiveSpec ==
  /\ ExecInit /\ [][ExecNext]_vars
  /\ \A e \in 1..ExecJobs : WF_vars(PollTask(e)) /\ WF_vars(TimeOutTask(e))

\* ============================================================ claims
Processing(n) == heap[n].status = "PROCESSING"
Queued(n) == heap[n].status = "QUEUED"
Terminal(n) == heap[n].status \in {"COMPLETED", "FAILED"}

\* the jobs the scheduler still holds in one of its four containers
Held ==
  Range(queue) \cup {processing[k] : k \in DOMAIN processing}
    \cup UNION {Range(completed[u]) : u \in Users}
    \cup UNION {Range(failed[u]) : u \in Users}

\* C1: at most max_concurrent jobs have status PROCESSING at any time.
C1_AtMostMaxProcessing ==
  Cardinality({n \in DOMAIN heap : Processing(n)}) <= max_concurrent

\* C2: dispatch is FIFO: no job is PROCESSING or terminal while a job
\* admitted before it is still QUEUED; the queue holds exactly the QUEUED
\* jobs in admission order (add_job appends, _process_queue pops the head).
C2_FifoDispatch ==
  /\ \A a, b \in DOMAIN heap : (a < b /\ Queued(a)) => Queued(b)
  /\ \A i, j \in DOMAIN queue : i < j => queue[i] < queue[j]
  /\ Range(queue) = {n \in DOMAIN heap : Queued(n)}

\* C2 witness: with one slot, the first job is done, the second was taken
\* from the head of the queue and the third still waits.
C2_Witness ==
  /\ max_concurrent = 1
  /\ Len(heap) >= 3
  /\ Terminal(1) /\ Processing(2) /\ Queued(3)

\* C3: if every job that enters PROCESSING is eventually marked, every
\* queued job eventually leaves the queue and the queue is empty again
\* and again (for good once submissions stop).
C3_QueueDrains ==
  /\ \A n \in 1..LiveJobs :
       (n \in DOMAIN heap /\ Queued(n)) ~> (n \in DOMAIN heap /\ ~Queued(n))
  /\ []<>(queue = <<>>)

\* C3 witness: all jobs were admitted with a single slot, so jobs waited,
\* and the queue has drained.
C3_Witness ==
  /\ max_concurrent = 1
  /\ Len(heap) = LiveJobs
  /\ queue = <<>>
  /\ total_completed + total_failed = LiveJobs

MarkOps == {"mark_job_completed", "mark_job_failed"}

\* C4 (as claimed): every call of mark_job_completed / mark_job_failed, for
\* any job id, runs _process_queue exactly once before it returns, and
\* every add_job schedules exactly one _process_queue task.
C4_EveryMarkDispatches ==
  /\ last.op \in MarkOps => last.dispatches = 1
  /\ last.op = "add_job" => last.created = 1

\* C4 (amended): a mark call for an id in the processing set runs
\* _process_queue exactly once before returning (no job is left waiting
\* beside a free slot); a mark call for an id not in the processing set
\* returns without a dispatch attempt; add_job creates exactly one
\* _process_queue task and runs none itself.
C4_MarkDispatchesIffFound ==
  /\ (last.op \in MarkOps /\ last.found) =>
       (last.dispatches = 1 /\ last.created = 0 /\ ~HasFreeSlot(processing, queue))
  /\ (last.op \in MarkOps /\ ~last.found) => (last.dispatches = 0 /\ last.created = 0)
  /\ last.op = "add_job" => (last.created = 1 /\ last.dispatches = 0 /\ tasks >= 1)

\* C4 witness: a failure was marked for a processing job and the dispatch
\* inside the call promoted the job that was waiting.
C4_Witness ==
  /\ last.op = "mark_job_failed" /\ last.found
  /\ total_failed = 1 /\ total_completed = 0
  /\ Len(heap) >= 2 /\ heap[1].status = "FAILED" /\ Processing(2)
  /\ max_concurrent = 1

\* the jobs of owner u that ended with the given status
Ended(u, status) == {n \in DOMAIN heap : heap[n].user_id = u /\ heap[n].status = status}

Min(a, b) == IF a < b THEN a ELSE b

\* one history bucket: at most 10 jobs, as many as the bound allows, in
\* order of termination, and every job no longer in it terminated before
\* every job still in it
BucketOk(list, ended) ==
  /\ Len(list) <= HistoryLimit
  /\ Len(list) = Min(HistoryLimit, Cardinality(ended))
  /\ Range(list) \subseteq ended
  /\ \A i, j \in DOMAIN list :
       i < j => heap[list[i]].completed_at < heap[list[j]].completed_at
  /\ \A n \in ended \ Range(list) : \A m \in Range(list) :
       heap[n].completed_at < heap[m].completed_at

\* C5: every owner's completed history and failed history hold at most 10
\* jobs each; a bucket past 10 loses its earliest-terminated job; each
\* bucket keeps the last 10 of its own jobs whatever the other holds.
C5_HistoryBounded ==
  \A u \in Users :
    /\ BucketOk(completed[u], Ended(u, "COMPLETED"))
    /\ BucketOk(failed[u], Ended(u, "FAILED"))

\* C5 witness: an owner's completed bucket is full after an eviction (its
\* first job of all is gone) while the failed bucket is full too.
C5_Witness ==
  \E u \in Users :
    /\ Len(completed[u]) = HistoryLimit
    /\ Len(failed[u]) = HistoryLimit
    /\ Ended(u, "COMPLETED") \ Range(completed[u]) # {}
    /\ \E n \in Range(completed[u]) : heap[n].id[2] >= 1

\* C6: an evicted job is unresolvable (get_job gives None and
\* get_user_jobs of its owner does not list it); a job that was not
\* evicted (queued, processing or in a history) is resolved by get_job.
C6_ResolvableIffHeld ==
  \A n \in DOMAIN heap :
    /\ n \in Held => get_job(heap[n].id) = n
    /\ (Terminal(n) /\ n \notin Held) =>
         (get_job(heap[n].id) = 0 /\ n \notin get_user_jobs(heap[n].user_id))

Statuses(h) == [n \in DOMAIN h |-> h[n].status]
Positions(h) == [n \in DOMAIN h |-> h[n].position]

\* C10: max_concurrent = 2, five submissions and their dispatch attempts:
\* jobs 1, 2 PROCESSING without position, jobs 3, 4, 5 QUEUED at positions
\* 1, 2, 3; once job 1 is marked completed, job 3 is PROCESSING and jobs
\* 4, 5 are at positions 1, 2.
C10_FiveJobsTwoSlots ==
  /\ (Len(heap) = 5 /\ tasks = 0 /\ total_completed + total_failed = 0) =>
       /\ Statuses(heap) = <<"PROCESSING", "PROCESSING", "QUEUED", "QUEUED", "QUEUED">>
       /\ Positions(heap) = <<0, 0, 1, 2, 3>>
  /\ (Len(heap) = 5 /\ tasks = 0 /\ total_completed = 1 /\ total_failed = 0
        /\ heap[1].status = "COMPLETED") =>
       /\ Statuses(heap) = <<"COMPLETED", "PROCESSING", "PROCESSING", "QUEUED", "QUEUED">>
       /\ Positions(heap) = <<0, 0, 0, 1, 2>>

\* ----------------------------------------------------- ingestion claims
\* execution j is in the file loop, at a file not yet handled
AtFile(j) == run[j].pc = "check" /\ run[j].next <= Len(run[j].files)

\* the content of the file execution j is at
Current(j) == run[j].files[run[j].next]

\* MutagenFile let the file of execution j through to the hash
MetaPasses(j) ==
  \/ meta[Current(j)] = "ok"
  \/ meta[Current(j)] = "none" /\ run[j].kind = "youtube"

UniqueHashes ==
  \A a, b \in DOMAIN tracks : tracks[a].song_hash = tracks[b].song_hash => a = b

\* the skipped_tracks entry for the file execution j is at, were it a
\* duplicate of Track t
DuplicateSkip(j, t) ==
  [file |-> run[j].next, reason |-> "Already in library", id |-> tracks[t].id]

\* C7: no two Track rows ever have the same song_hash, and every step that
\* handles a file whose hash matches an existing Track creates no Track and
\* appends to the job's skipped list an entry with that Track's id.
C7_DuplicateIsSkipped ==
  [][/\ UniqueHashes'
     /\ \A j \in Runs :
          (AtFile(j) /\ existing_track(Current(j)) # 0 /\ run'[j] # run[j]) =>
            /\ tracks' = tracks
            /\ run'[j].skipped =
                 Append(run[j].skipped, DuplicateSkip(j, existing_track(Current(j))))]_vars

\* execution j is at a readable file whose Track was created, after j's
\* files were acquired, by an execution of another owner
LostRace(j) ==
  /\ AtFile(j)
  /\ MetaPasses(j)
  /\ \E k \in Runs \ {j} :
       /\ run[k].owner # run[j].owner
       /\ \E p \in Range(run[k].processed) :
            tracks[p.id].song_hash = Current(j) /\ p.id > run[j].seen

NoConflict == \A j \in Runs : "conflict" \notin Range(run[j].log)

OverQuota(j) ==
  /\ AtFile(j)
  /\ MetaPasses(j)
  /\ existing_track(Current(j)) = 0
  /\ storage_used[run[j].owner] + get_file_size_mb(Current(j)) > storage_quota[run[j].owner]

\* C9: the step that handles an over-quota file creates no Track, moves
\* nothing to uploads/music, leaves the ledger unchanged and records the
\* skipped file in the job's result.
C9_QuotaSkipRecorded ==
  [][\A j \in Runs :
       (OverQuota(j) /\ run'[j] # run[j]) =>
         /\ tracks' = tracks
         /\ music' = music
         /\ storage_used' = storage_used
         /\ \E e \in Range(run'[j].skipped) : e.file = run[j].next]_vars

\* ------------------------------------------------ scheduler claims, II
StatusSteps ==
  {<<"QUEUED", "PROCESSING">>, <<"PROCESSING", "COMPLETED">>,
   <<"PROCESSING", "FAILED">>}

\* the jobs referenced by the processing set
InProcessing == {processing[k] : k \in DOMAIN processing}

\* C12: a job's status changes only QUEUED -> PROCESSING -> COMPLETED or
\* FAILED; no step changes any field of a terminated job, and a terminated
\* job is never put back in the queue or the processing set.
C12_StatusTransitions ==
  [][\A n \in DOMAIN heap :
       /\ heap'[n].status # heap[n].status =>
            <<heap[n].status, heap'[n].status>> \in StatusSteps
       /\ Terminal(n) =>
            /\ heap'[n] = heap[n]
            /\ n \notin Range(queue')
            /\ n \notin {processing'[k] : k \in DOMAIN processing'}]_vars

\* C12 witness: one job has failed, one has completed, and a job admitted
\* after them is being processed.
C12_Witness ==
  /\ Len(heap) >= 3
  /\ heap[1].status = "FAILED" /\ heap[2].status = "COMPLETED" /\ Processing(3)
  /\ InProcessing = {3}

\* C13: the job at queue index i has position i (1..N in queue order), and
\* a job has a position exactly while it is QUEUED.
C13_DensePositions ==
  /\ \A i \in DOMAIN queue : heap[queue[i]].position = i
  /\ \A n \in DOMAIN heap : heap[n].position # 0 <=> Queued(n)

\* C13 witness: after a dispatch two jobs wait at positions 1 and 2 behind
\* the one that was taken.
C13_Witness ==
  /\ Len(heap) >= 3
  /\ Processing(1) /\ heap[1].position = 0
  /\ queue = <<2, 3>>
  /\ heap[2].position = 1 /\ heap[3].position = 2

\* C14: an admission request with an invalid kind or an invalid source URL
\* creates no Job and leaves the queue, the processing set, the registry
\* and the counters unchanged.
C14_InvalidRequestRejected ==
  [][(last'.op = "add_to_queue" /\ ~ValidRequest(last'.download_type, last'.url)) =>
       /\ ~last'.accepted
       /\ UNCHANGED <<heap, queue, processing, jobs, total_completed, total_failed>>]_vars

\* ---- pipeline claims, II ----

\* the job of execution j was marked FAILED / COMPLETED
JobFailed(j) == run[j].pc = "failed"

JobCompleted(j) == run[j].pc = "completed"

\* C15: a job ends FAILED only on an acquisition failure (non-zero exit or
\* timeout, or zero files acquired); a quota-exceeded condition never marks
\* a job FAILED.
C15_FailedOnlyOnAcquisition ==
  \A j \in Runs : JobFailed(j) => run[j].error \in {"acquisition", "nofiles"}

\* C16: the scratch directory of every job that reached PROCESSING and made
\* one no longer exists once the job is terminal, on the success path and
\* on every failure path.
C16_ScratchRemoved ==
  \A j \in Runs :
    ((JobFailed(j) \/ JobCompleted(j)) /\ run[j].dir) =>
       ~temp_dirs[TempDir(run[j].owner, run[j].url)]

\* execution j is past the duplicate and quota checks of a file and about
\* to persist it
AtPersist(j) == run[j].pc = "persist"

\* the step of execution j ended in the per-file except
FileFailed(j) ==
  AtPersist(j) /\ run'[j].log = Append(run[j].log, "error")

\* C17: when the ingestion of a file fails after the duplicate check, no
\* Track row with its hash remains, the file moved into uploads/music is
\* removed, the owner's ledger is not charged, and the pipeline goes on to
\* the next file without failing the job.
C17_FailedFileRolledBack ==
  [][\A j \in Runs :
       FileFailed(j) =>
         /\ ~IntegrityError(Current(j))'
         /\ music' = music
         /\ storage_used' = storage_used
         /\ run'[j].pc = "check"
         /\ run'[j].next = run[j].next + 1]_vars

\* the result dict a completed execution hands to mark_job_completed (its
\* counting keys)
Result(j) ==
  [processed |-> Len(run[j].processed), skipped |-> Len(run[j].skipped)]

\* the tally a result reports under a key, 0 when it has no such key
Tally(result, key) == IF key \in DOMAIN result THEN result[key] ELSE 0

\* C18: the result of a COMPLETED job counts every acquired file in exactly
\* one of processed, skipped or errored: the tallies sum to the number of
\* files the acquisition returned.
C18_TalliesSumToFiles ==
  \A j \in Runs :
    JobCompleted(j) =>
      Tally(Result(j), "processed") + Tally(Result(j), "skipped")
        + Tally(Result(j), "errored") = Len(run[j].files)

\* the size of the Track a step creates for owner u, 0 when it creates none
\* for u
Charged(u) ==
  IF Len(tracks') = Len(tracks) + 1 /\ tracks'[Len(tracks')].uploaded_by_id = u
  THEN tracks'[Len(tracks')].file_size_mb
  ELSE 0

\* C19: every step changes every owner's storage_used_mb by exactly the
\* size of the Track it newly persists for that owner: nothing for a
\* duplicate skip, nothing for another owner, and never a decrease.
C19_LedgerAdditive ==
  [][\A u \in Users : storage_used'[u] = storage_used[u] + Charged(u)]_vars

RECURSIVE SizeOfTracks(_, _)
\* the sizes of the first n Tracks that owner u uploaded, summed
SizeOfTracks(u, n) ==
  IF n = 0 THEN 0
  ELSE SizeOfTracks(u, n - 1)
         + (IF tracks[n].uploaded_by_id = u THEN tracks[n].file_size_mb ELSE 0)

\* C20: when two jobs of one owner have executed concurrently, the owner's
\* ledger equals its initial value (0) plus the sizes of all the Tracks
\* both jobs persisted.
C20_NoLostUpdate ==
  \A j, k \in Runs :
    (j # k /\ run[j].owner = run[k].owner /\ JobCompleted(j) /\ JobCompleted(k)) =>
       storage_used[run[j].owner] = SizeOfTracks(run[j].owner, Len(tracks))

\* the positions of the committed PlaylistSong rows of the playlist that
\* execution j created, in the order of their insertion
PlaylistPositions(j) == [i \in DOMAIN run[j].playlist |-> run[j].playlist[i].position]

\* C11: a playlist import of 3 files whose 2nd is byte-identical to a
\* pre-existing Track completes with skipped = 1 and a playlist that holds
\* one entry per processed or skipped file, positions in file order, one of
\* them referencing the pre-existing Track, whatever happens to the other
\* files; when the other two files are ingested, processed = 2 and the
\* entries are at positions 1, 2, 3 with the 2nd on the pre-existing Track.
C11_PlaylistKeepsDuplicate ==
  JobCompleted(1) =>
    LET r == run[1] IN
    /\ Tally(Result(1), "skipped") = 1
    /\ Len(r.playlist) = Tally(Result(1), "processed") + Tally(Result(1), "skipped")
    /\ \E i \in DOMAIN r.playlist : r.playlist[i].track_id = PreExisting.id
    /\ \A a, b \in DOMAIN r.playlist : a < b => r.playlist[a].position < r.playlist[b].position
    /\ Tally(Result(1), "processed") = 2 =>
         /\ PlaylistPositions(1) = <<1, 2, 3>>
         /\ r.playlist[2].track_id = PreExisting.id

\* ------------------------------------------------------------ CatalogSpec
\* sessions resolve names against an empty catalog, and commit or roll back
CatalogInit == SchedulerIdle /\ NoIngestion

CatalogNext ==
  \/ \E s \in Sessions, name \in Names \cup {None} :
       get_or_create_artist(s, name) /\ UNCHANGED <<schedVars, last, ingestVars, execVars>>
  \/ \E s \in Sessions, title \in Names \cup {None}, name \in Names \cup {None} :
       get_or_create_album(s, title, name)
         /\ UNCHANGED <<schedVars, last, ingestVars, execVars>>
  \/ \E s \in Sessions : db_commit(s) /\ UNCHANGED <<schedVars, last, ingestVars, execVars>>
  \/ \E s \in Sessions : db_rollback(s) /\ UNCHANGED <<schedVars, last, ingestVars, execVars>>

CatalogSpec == CatalogInit /\ [][CatalogNext]_vars

\* ---- scheduler claims, III ----

\* C26: any two jobs admitted by add_job have distinct ids, also when one
\* owner submits twice within a millisecond; so every job the scheduler
\* still holds is the one its id is registered for.
C26_DistinctIds ==
  /\ \A a, b \in DOMAIN heap : a # b => heap[a].id # heap[b].id
  /\ \A n \in Held : heap[n].id \in DOMAIN jobs /\ jobs[heap[n].id] = n

\* executor e is in wait_until_processing
Waiting(e) == e \in DOMAIN executors /\ executors[e].pc = "waiting"

\* the job wait_until_processing(job_id) looks at has the given status
Observed(job_id, statuses) ==
  get_job(job_id) # 0 /\ heap[get_job(job_id)].status \in statuses

\* wait_until_processing of executor e returns in this step, with True
\* (the executor goes on to the download) or False (it gives up)
Returns(e, value) ==
  /\ Waiting(e)
  /\ executors'[e].pc = (IF value THEN "acquiring" ELSE "gave_up")

\* a return of wait_until_processing is True only when the job is observed
\* PROCESSING, and False only when the job is unknown, observed COMPLETED or
\* FAILED, or still QUEUED after the timeout; a poll leaves the scheduler's
\* state alone
WaitSafe ==
  [][\A e \in DOMAIN executors :
       /\ Returns(e, TRUE) => Observed(executors[e].job_id, {"PROCESSING"})
       /\ Returns(e, FALSE) =>
            \/ get_job(executors[e].job_id) = 0
            \/ Observed(executors[e].job_id, {"COMPLETED", "FAILED"})
            \/ Observed(executors[e].job_id, {"QUEUED"}) /\ executors[e].elapsed
       /\ (Waiting(e) /\ executors'[e] # executors[e]) => UNCHANGED schedVars]_vars

\* the wait ends once the job is dispatched, terminated, evicted or the
\* timeout has passed
WaitReturns ==
  \A e \in 1..ExecJobs :
    (Waiting(e) /\ (executors[e].elapsed
                      \/ ~Observed(executors[e].job_id, {"QUEUED"})))
      ~> ~Waiting(e)

\* C23: wait_until_processing(job_id, timeout) returns true only when the
\* job is observed PROCESSING; it returns false when the job is unknown,
\* observed COMPLETED or FAILED, or the timeout elapses while it is QUEUED;
\* it never modifies scheduler state; and it always returns once the job
\* is dispatched, terminated, evicted or the timeout has passed.
C23_WaitContract == WaitSafe /\ WaitReturns

\* C23 witness: one wait has returned True for a dispatched job while
\* another has returned False after its timeout, its job still QUEUED.
C23_Witness ==
  \E a, b \in DOMAIN executors :
    /\ executors[a].pc = "acquiring" /\ heap[executors[a].job].status = "PROCESSING"
    /\ executors[b].pc = "gave_up" /\ executors[b].elapsed
    /\ executors[a].job_id # executors[b].job_id
    /\ Observed(executors[b].job_id, {"QUEUED"})

\* executor e has not returned: it still waits for, or works on, its job
Live(e) == executors[e].pc \in {"waiting", "acquiring"}

\* C28: every job in the processing set has an executor that has not
\* returned and that will mark it completed or failed; a job whose
\* executor gave up waiting never occupies a slot.
C28_NoSlotLeaked ==
  \A id \in DOMAIN processing :
    \E e \in DOMAIN executors : executors[e].job_id = id /\ Live(e)

\* the executors whose download (acquisition subprocess) was started for
\* job n
Started(n) ==
  {e \in DOMAIN executors :
     executors[e].job = n /\ executors[e].pc \in {"acquiring", "returned"}}

\* C29: a job's acquisition starts only while the job is PROCESSING and at
\* most once per job; the marks take effect at most once per job, so
\* total_completed + total_failed is the number of terminal jobs.
C29_OneExecutionPerJob ==
  [][/\ \A e \in DOMAIN executors :
          (Waiting(e) /\ executors'[e].pc = "acquiring") =>
             heap[executors'[e].job].status = "PROCESSING"
     /\ \A n \in DOMAIN heap' : Cardinality(Started(n)') <= 1
     /\ total_completed' + total_failed'
          = Cardinality({n \in DOMAIN heap' : heap'[n].status \in {"COMPLETED", "FAILED"}})]_vars

\* the executors blocked in their downloader subprocess
Acquiring == {e \in DOMAIN executors : executors[e].pc = "acquiring"}

Popped == Range(queue) \ Range(queue')

\* C22: when a run of _process_queue has finished, the queue is empty or
\* max_concurrent jobs are processing; each job popped is PROCESSING, its
\* position cleared and started_at stamped.
C22_WorkConserving ==
  [][/\ last'.dispatches = 1 =>
          \/ queue' = <<>>
          \/ Cardinality({n \in DOMAIN heap' : heap'[n].status = "PROCESSING"})
               >= max_concurrent
     /\ \A n \in Popped :
          /\ heap'[n].status = "PROCESSING"
          /\ heap'[n].position = 0
          /\ heap'[n].started_at]_vars

\* C22 witness: a run of _process_queue has filled both slots and left a
\* job waiting at position 1.
C22_Witness ==
  /\ last.op = "_process_queue"
  /\ max_concurrent = 2
  /\ Len(heap) = 3 /\ Processing(1) /\ Processing(2) /\ Queued(3)
  /\ heap[1].started_at /\ heap[1].position = 0 /\ heap[3].position = 1
  /\ tasks <= 1

\* the jobs in the processing set
InSlots == {processing[k] : k \in DOMAIN processing}

\* the containers job n is in, by the status they stand for
ContainersOf(n) ==
  {c \in {"QUEUED", "PROCESSING", "COMPLETED", "FAILED"} :
     \/ c = "QUEUED" /\ n \in Range(queue)
     \/ c = "PROCESSING" /\ n \in InSlots
     \/ c = "COMPLETED" /\ n \in Range(completed[heap[n].user_id])
     \/ c = "FAILED" /\ n \in Range(failed[heap[n].user_id])}

\* C27: the registry is partitioned by the four containers: every
\* registered job is in exactly one of them, every job in a container is
\* registered, its status is the container's, completed_at is set exactly
\* for terminal jobs, error only for FAILED and result only for COMPLETED.
C27_RegistryPartitioned ==
  /\ \A id \in DOMAIN jobs : Cardinality(ContainersOf(jobs[id])) = 1
  /\ \A n \in Held : get_job(heap[n].id) = n /\ ContainersOf(n) = {heap[n].status}
  /\ \A n \in DOMAIN heap :
       /\ heap[n].completed_at # 0 <=> Terminal(n)
       /\ heap[n].error => heap[n].status = "FAILED"
       /\ heap[n].result => heap[n].status = "COMPLETED"

\* ---- pipeline claims, III ----

\* execution j is under way and has made its temp directory
Active(j) == run[j].pc \in {"acquiring", "acquired", "check", "persist"}

\* C25: no two jobs that are PROCESSING at the same time use the same
\* scratch directory, also when they are of one owner and for one URL; so
\* no job's cleanup removes the directory of another running job.
C25_PrivateScratchDir ==
  \A j, k \in Runs :
    (j # k /\ Active(j) /\ Active(k)) =>
       /\ TempDir(run[j].owner, run[j].url) # TempDir(run[k].owner, run[k].url)
       /\ temp_dirs[TempDir(run[k].owner, run[k].url)]

\* C30: ingestion through the download pipeline never takes an owner over
\* quota: storage_used_mb, at most storage_quota_mb before a job, is at most
\* storage_quota_mb after every file of every job of the owner.
C30_NeverOverQuota ==
  \A u \in Users : storage_used[u] <= storage_quota[u]

\* ---- catalog claims ----

\* every row of table t, committed or flushed by a session
Rows(t) == catalog.rows[t] \cup UNION {catalog.pending[s][t] : s \in Sessions}

\* equal ignoring case and surrounding whitespace
SameName(a, b) == EqualsIgnoringCase(strip(a), strip(b))

\* the table the last call resolved against
TableOf(fn) == IF fn = "get_or_create_album" THEN "albums" ELSE "artists"

\* C21: get-or-create is idempotent.  No two rows of artists, and no two of
\* albums, have names equal ignoring case and surrounding whitespace; a call
\* whose name matches an existing row returns it and creates nothing; and a
\* call returns a row only if the row's name equals the requested name
\* ignoring case and surrounding whitespace.
C21_GetOrCreateIdempotent ==
  /\ \A t \in {"artists", "albums"} :
       \A a, b \in Rows(t) : SameName(a, b) => a = b
  /\ catalog.call.created =>
       \A r \in Rows(TableOf(catalog.call.fn)) \ catalog.call.returned :
          ~SameName(r, catalog.call.requested)
  /\ \A r \in catalog.call.returned : SameName(r, catalog.call.requested)

====
